---- MODULE Spec2Model ----
(***************************************************************************)
(* Model of the irrigation runtime pipeline of eto-smart-zone:             *)
(*   - ETOSmartZoneClient (custom_components/eto_smart_zone/api.py), its   *)
(*     coordinator and sensor;                                             *)
(*   - calc_duration (custom_components/eto_irrigation/api_helpers.py);    *)
(*   - ETOApiClient.collect_calculation_data                               *)
(*     (custom_components/eto_irrigation/api.py).                          *)
(*                                                                         *)
(* Readings are millimetres held as integer tenths (80 is 8.0 mm).         *)
(* A Python float is a record [t, v]: t = "num" with v the value in        *)
(* tenths, or t = "nan" / "inf" / "ninf" (v = 0).  The string              *)
(* STATE_UNKNOWN stored in the mapping is [t |-> "unknown", v |-> 0].      *)
(* Arithmetic on "num" values is exact (rationals as numerator and         *)
(* denominator); binary representation error of the floats is not          *)
(* modelled.  Python's round() is round-half-to-even.                      *)
(***************************************************************************)
EXTENDS Integers, Sequences, FiniteSets, TLC

VARIABLES
    throughput,          \* ETOSmartZoneClient._throughput
    scale,               \* ETOSmartZoneClient._scale
    max_mins,            \* ETOSmartZoneClient._max_mins
    calc_data,           \* ETOSmartZoneClient._calc_data (key -> value)
    tick_exc,            \* what the last collect_calculation_data raised
    calc_called,         \* calc_smart_zone was entered in the last tick
    coord_exc,           \* what the last _async_update_data raised
    last_update_success, \* coordinator.last_update_success
    has_data,            \* coordinator.data is the client's mapping
    attributes,          \* last outcome of extra_state_attributes
    states,              \* states of the eto and rain entities at the last tick
    in_eto,              \* calculator inputs (calculator specification)
    in_rain,
    out_duration,        \* result of calc_duration
    pc,                  \* position of the calculator specification
    eto_calc_data,       \* ETOApiClient._calc_data (key -> value)
    eto_exc,             \* what the last ETOApiClient tick raised
    eto_written,         \* keys the last ETOApiClient tick wrote, in order
    task_pc,             \* position of each refresh task in its tick
    running,             \* the task the event loop is executing, or "none"
    flow_step,           \* the form each config flow is showing
    flow_config,         \* ConfigFlowHandler.config of each flow (its name)
    entries,             \* names of the config entries created, in order
    setup_pc,            \* position of async_setup_entry
    published            \* state of the sensor the observer sees

vars == <<throughput, scale, max_mins, calc_data, tick_exc, calc_called,
          coord_exc, last_update_success, has_data, attributes, states,
          in_eto, in_rain, out_duration, pc,
          eto_calc_data, eto_exc, eto_written,
          task_pc, running, flow_step, flow_config, entries,
          setup_pc, published>>

zoneVars == <<throughput, scale, max_mins, calc_data, tick_exc, calc_called,
              coord_exc, last_update_success, has_data, attributes, states>>
calcVars == <<in_eto, in_rain, out_duration, pc>>
etoVars == <<eto_calc_data, eto_exc, eto_written>>
loopVars == <<task_pc, running>>
\* the variables of the event-loop, config-flow and setup specifications
flowVars == <<flow_step, flow_config, entries>>
setupVars == <<setup_pc, published>>
auxVars == <<loopVars, flowVars, setupVars>>

-----------------------------------------------------------------------------
(* Bounds and program constants *)

MaxTenths == 80          \* largest reading, in tenths of a millimetre
DoyMargin == 2           \* days below 1 and above 366 handed to calc_eto
MaxEntries == 3          \* config entries created in one behaviour

MIN_THROUGHPUT == 5
MAX_THROUGHPUT == 20
MIN_SCALE == 1
MAX_SCALE == 100
MIN_MAX_MINS == 1
MAX_MAX_MINS == 60

\* keys of the result mapping; api.py writes the raw runtime under the name
\* ATTR_RAW_RUNTIME and sensor.py reads it under CALC_RAW_RUNTIME, which
\* const.py sets to "raw_runtime": the model takes them to be the same key
CALC_RUNTIME == "runtime"
ATTR_ETO == "eto"
ATTR_RAIN == "rain"
ATTR_RAW_RUNTIME == "raw_runtime"
CALC_RAW_RUNTIME == "raw_runtime"
CONF_THROUGHPUT_MM_H == "throughput_mm_h"
CONF_SCALE == "scale"
CONF_MAX_MINS == "max_mins"

-----------------------------------------------------------------------------
(* Python floats *)

Num(n) == [t |-> "num", v |-> n]
NaN == [t |-> "nan", v |-> 0]
PosInf == [t |-> "inf", v |-> 0]
NegInf == [t |-> "ninf", v |-> 0]
STATE_UNKNOWN == [t |-> "unknown", v |-> 0]

IsNum(x) == x.t = "num"

\* a - b on floats
FSub(a, b) ==
    IF a.t = "nan" \/ b.t = "nan" THEN NaN
    ELSE IF a.t = "num" /\ b.t = "num" THEN Num(a.v - b.v)
    ELSE IF a.t = "inf" THEN (IF b.t = "inf" THEN NaN ELSE PosInf)
    ELSE IF a.t = "ninf" THEN (IF b.t = "ninf" THEN NaN ELSE NegInf)
    ELSE IF b.t = "inf" THEN NegInf ELSE PosInf

\* x < 0 on floats (every comparison with NaN is false)
FNeg(x) == (x.t = "num" /\ x.v < 0) \/ x.t = "ninf"

\* a >= b on floats
FGeq(a, b) ==
    /\ a.t # "nan" /\ b.t # "nan"
    /\ \/ a.t = "inf"
       \/ b.t = "ninf"
       \/ a.t = "num" /\ b.t = "num" /\ a.v >= b.v

Abs(n) == IF n < 0 THEN -n ELSE n

\* round(n / d) for n >= 0, d > 0: Python rounds halves to the even integer
Round(n, d) ==
    LET q == n \div d
        r == n % d
    IN  IF 2 * r < d THEN q
        ELSE IF 2 * r > d THEN q + 1
        ELSE IF q % 2 = 0 THEN q ELSE q + 1

-----------------------------------------------------------------------------
(* Exceptions *)

NoExc == "none"

\* the exception classes of eto_smart_zone/api.py and their base class
SmartZoneBase(e) ==
    IF e \in {"ETOApiSmartZoneCommunicationError",
              "ETOApiSmartZoneAuthenticationError",
              "ETOApiSmartZoneCalculationError",
              "ETOApiSmartZoneCalculationStartupError"}
    THEN "ETOApiSmartZoneError"
    ELSE "Exception"

IsSmartZoneError(e) ==
    e = "ETOApiSmartZoneError" \/ SmartZoneBase(e) = "ETOApiSmartZoneError"

-----------------------------------------------------------------------------
(* ETOSmartZoneClient *)

Put(cd, k, x) == (k :> x) @@ cd

\* __init__: the mapping right after construction (no raw_runtime entry)
InitCalcData(tp, sc, mm) ==
    (CALC_RUNTIME :> 0) @@ (ATTR_ETO :> STATE_UNKNOWN) @@
    (ATTR_RAIN :> STATE_UNKNOWN) @@ (CONF_THROUGHPUT_MM_H :> tp) @@
    (CONF_SCALE :> sc) @@ (CONF_MAX_MINS :> mm)

\* _get treating the "unknown" state as a reading of 0
GetUnknownAsZero(st) ==
    IF st.t = "none"
    THEN [val |-> NaN, exc |-> "ETOApiSmartZoneCalculationError"]
    ELSE IF st.t = "unknown"
    THEN [val |-> Num(0), exc |-> NoExc]
    ELSE IF st.t = "text"
    THEN [val |-> NaN, exc |-> "ValueError"]
    ELSE [val |-> st, exc |-> NoExc]

\* _get: st is the entity's state object; "none" stands for states.get
\* returning None, "text" for a state string float() does not parse
Get(st) ==
    IF st.t = "none"
    THEN [val |-> NaN, exc |-> "ETOApiSmartZoneCalculationError"]
    ELSE IF st.t = "unknown"
    THEN [val |-> NaN, exc |-> "ETOApiSmartZoneCalculationStartupError"]
    ELSE IF st.t = "text"
    THEN [val |-> NaN, exc |-> "ValueError"]
    ELSE [val |-> st, exc |-> NoExc]

\* delta with its operands exchanged
DeltaSwapped(cd) == FSub(cd[ATTR_ETO], cd[ATTR_RAIN])

\* delta = rain - eto
Delta(cd) == FSub(cd[ATTR_RAIN], cd[ATTR_ETO])

\* the branch test "delta < 0"
NeedsWater(delta) == FNeg(delta)

\* the scaled runtime cut to an integer with int() instead of round()
ScaledRuntimeTruncated(delta, tp, sc) ==
    (Abs(delta.v) * 3600 * sc) \div (10 * tp * 100)

\* the scaled runtime rounded up to the next second
ScaledRuntimeCeiling(delta, tp, sc) ==
    (Abs(delta.v) * 3600 * sc + 10 * tp * 100 - 1) \div (10 * tp * 100)

\* round(abs(delta) / throughput * 60 * 60 * scale / 100), delta a negative
\* number in tenths of a millimetre and throughput # 0; a negative
\* throughput gives a negative quotient, and round(-x) = -round(x)
ScaledRuntime(delta, tp, sc) ==
    IF tp > 0
    THEN Round(Abs(delta.v) * 3600 * sc, 10 * tp * 100)
    ELSE -Round(Abs(delta.v) * 3600 * sc, 10 * (-tp) * 100)

\* max_mins taken as the shortest runtime instead of the longest
CapRuntimeAsFloor(rt, mm) == IF rt < mm * 60 THEN mm * 60 ELSE rt

\* the runtime without the cap
CapRuntimeOff(rt, mm) == rt

\* the cap taken in minutes where the runtime is in seconds
CapRuntimeMinutes(rt, mm) == IF rt > mm THEN mm ELSE rt

\* "if runtime > max_mins * 60: runtime = max_mins * 60"
CapRuntime(rt, mm) == IF rt > mm * 60 THEN mm * 60 ELSE rt

\* the "delta < 0" branch storing raw_runtime after the cap was applied
WaterBranchRawAfterCap(cd, delta, tp, sc, mm) ==
    LET rt == CapRuntime(ScaledRuntime(delta, tp, sc), mm)
        cd1 == Put(cd, CALC_RUNTIME, rt)
    IN  Put(cd1, ATTR_RAW_RUNTIME, cd1[CALC_RUNTIME])

\* the writes of the "delta < 0" branch
WaterBranch(cd, delta, tp, sc, mm) ==
    LET rt == ScaledRuntime(delta, tp, sc)
        cd1 == Put(cd, CALC_RUNTIME, rt)
        cd2 == Put(cd1, ATTR_RAW_RUNTIME, cd1[CALC_RUNTIME])
    IN  Put(cd2, CALC_RUNTIME, CapRuntime(cd2[CALC_RUNTIME], mm))

\* the writes of the "else" branch
CoveredBranch(cd) == Put(cd, CALC_RUNTIME, 0)

\* calc_smart_zone: the mapping after the call and the exception raised
calc_smart_zone(cd, tp, sc, mm) ==
    IF cd[ATTR_ETO].t # "unknown" /\ cd[ATTR_RAIN].t # "unknown"
    THEN LET delta == Delta(cd)
         IN  IF NeedsWater(delta)
             THEN IF tp = 0
                  THEN [data |-> cd, exc |-> "ZeroDivisionError"]
                  ELSE IF delta.t = "ninf"
                  THEN [data |-> cd, exc |-> "OverflowError"]
                  ELSE [data |-> WaterBranch(cd, delta, tp, sc, mm),
                        exc |-> NoExc]
             ELSE [data |-> CoveredBranch(cd), exc |-> NoExc]
    ELSE [data |-> cd, exc |-> NoExc]

\* collect_calculation_data without its broad except clause
WrapValueErrorOnly(e) ==
    IF e = "ValueError" THEN "ETOApiSmartZoneCalculationError" ELSE e

\* the except clauses of collect_calculation_data
Wrap(e) ==
    IF e = NoExc THEN NoExc
    ELSE IF e = "ValueError" THEN "ETOApiSmartZoneCalculationError"
    ELSE "ETOApiSmartZoneError"

\* collect_calculation_data with the eto entity in state es and the rain
\* entity in state rs
collect_calculation_data(cd, es, rs, tp, sc, mm) ==
    LET g1 == Get(es)
        cd1 == Put(cd, ATTR_ETO, g1.val)
        g2 == Get(rs)
        cd2 == Put(cd1, ATTR_RAIN, g2.val)
        c == calc_smart_zone(cd2, tp, sc, mm)
    IN  IF g1.exc # NoExc
        THEN [data |-> cd, exc |-> Wrap(g1.exc), called |-> FALSE]
        ELSE IF g2.exc # NoExc
        THEN [data |-> cd1, exc |-> Wrap(g2.exc), called |-> FALSE]
        ELSE [data |-> c.data, exc |-> Wrap(c.exc), called |-> TRUE]

\* the except clauses of _async_update_data
UpdateExc(e) ==
    IF e = NoExc THEN NoExc
    ELSE IF e = "ETOApiSmartZoneAuthenticationError" THEN "ConfigEntryAuthFailed"
    ELSE IF IsSmartZoneError(e) THEN "UpdateFailed"
    ELSE e

\* extra_state_attributes reading coordinator.data
AttrKeys ==
    {ATTR_ETO, ATTR_RAIN, CONF_THROUGHPUT_MM_H, CONF_SCALE, CALC_RAW_RUNTIME,
     CONF_MAX_MINS}

NoAttrs == [k \in {} |-> 0]

extra_state_attributes(data) ==
    IF AttrKeys \subseteq DOMAIN data
    THEN [exc |-> NoExc, attrs |-> [k \in AttrKeys |-> data[k]]]
    ELSE [exc |-> "KeyError", attrs |-> NoAttrs]

-----------------------------------------------------------------------------
(* calc_duration of eto_irrigation/api_helpers.py *)

\* the requirement with the hour taken as 60 seconds
RawRuntimeMinutes(delta, tp) == Round(Abs(delta.v) * 60, 10 * tp)

\* round(abs(delta) / throughput * 60 * 60) for a negative number delta
RawRuntime(delta, tp) == Round(Abs(delta.v) * 3600, 10 * tp)

calc_duration(eto, rain, tp) ==
    LET delta == FSub(rain, eto)
    IN  IF FNeg(delta)
        THEN IF tp = 0 THEN [val |-> 0, exc |-> "ZeroDivisionError"]
             ELSE IF delta.t = "ninf" THEN [val |-> 0, exc |-> "OverflowError"]
             ELSE [val |-> RawRuntime(delta, tp), exc |-> NoExc]
        ELSE [val |-> 0, exc |-> NoExc]

-----------------------------------------------------------------------------
(* ETOApiClient of eto_irrigation/api.py.  The trigonometric and exponential *)
(* formulas of the 19 steps are not evaluated: the value of a trace entry is *)
(* the set of inputs that went into it through the entries the step read.    *)

CONF_ELEVATION == "elevation"
CONF_LATITUDE == "latitude"
CONF_LONGITUDE == "longitude"
CONF_TEMP_MIN == "temp_min"
CONF_TEMP_MAX == "temp_max"
CONF_HUMIDITY_MIN == "humidity_min"
CONF_HUMIDITY_MAX == "humidity_max"
CONF_WIND == "wind"
CONF_SOLAR_RAD == "solar_rad"
CONF_ALBEDO == "albedo"
CONF_DOY == "day_of_year"

\* the entities read by collect_calculation_data, in the order it reads them
ReadingKeys == <<CONF_TEMP_MIN, CONF_TEMP_MAX, CONF_HUMIDITY_MIN,
                 CONF_HUMIDITY_MAX, CONF_WIND, CONF_SOLAR_RAD, CONF_ALBEDO>>

InputKeys == <<CONF_TEMP_MIN, CONF_TEMP_MAX, CONF_HUMIDITY_MIN,
               CONF_HUMIDITY_MAX, CONF_WIND, CONF_SOLAR_RAD, CONF_ALBEDO,
               CONF_DOY, CONF_LATITUDE, CONF_ELEVATION>>

\* the trace keys in the order calc_eto writes them
TraceKeys == <<"CALC_S1_5", "CALC_S2_6", "CALC_S3_7", "CALC_S4_9",
               "CALC_S5_10", "CALC_S6_11", "CALC_S7_12", "CALC_S8_13",
               "CALC_S9_14", "CALC_S10_16", "CALC_S10_17", "CALC_S10_18",
               "CALC_S11_19", "CALC_S12_23", "CALC_S12_24", "CALC_S13_25",
               "CALC_S14_26", "CALC_S15_27", "CALC_S16_28", "CALC_S17_29",
               "CALC_S18_30", "CALC_S19_31", "CALC_S19_32", "CALC_FS_33",
               "CALC_FS_34", "CALC_FSETO_35">>

\* a rational number n / d
Rat(n, d) == <<n, d>>

\* __init__ of ETOApiClient
EtoInitCalcData(lat, lon, elev) ==
    (CONF_ELEVATION :> elev) @@ (CONF_LATITUDE :> lat) @@ (CONF_LONGITUDE :> lon)

\* an exception leaving collect_calculation_data: its class, the class of
\* the exception it was raised from, and the function that raised that one
Raised(kind, cause, origin) == [kind |-> kind, cause |-> cause, origin |-> origin]
NotRaised == Raised(NoExc, NoExc, NoExc)

\* ETOApiClient._get
EtoGet(st) ==
    IF st.t = "none"
    THEN [val |-> 0, exc |-> "ETOApiClientCalculationError"]
    ELSE IF st.t = "unknown"
    THEN [val |-> 0, exc |-> "ETOApiClientCalculationStartupError"]
    ELSE IF st.t = "text"
    THEN [val |-> 0, exc |-> "ValueError"]
    ELSE [val |-> st.v, exc |-> NoExc]

\* the unit conversion applied to the reading before it is stored
Normalise(key, x) ==
    IF key \in {CONF_HUMIDITY_MIN, CONF_HUMIDITY_MAX} THEN Rat(x, 100)
    ELSE IF key = CONF_WIND THEN Rat(x * 10, 36)
    ELSE Rat(x, 1)

\* the except clauses of ETOApiClient.collect_calculation_data
EtoWrap(e) ==
    IF e = NoExc THEN NoExc
    ELSE IF e = "ValueError" THEN "ETOApiClientCalculationError"
    ELSE "ETOApiClientError"

\* _check_doy accepting day 0
check_doy_from_zero(doy) == IF 0 <= doy /\ doy <= 366 THEN NoExc ELSE "ValueError"

\* _check_doy
check_doy(doy) == IF 1 <= doy /\ doy <= 366 THEN NoExc ELSE "ValueError"

\* _check_latitude_rad refusing the two poles
check_latitude_rad_open(lat) ==
    IF -90 < lat /\ lat < 90 THEN NoExc ELSE "ValueError"

\* _check_latitude_rad on deg2rad(latitude), latitude in degrees
check_latitude_rad(lat) == IF -90 <= lat /\ lat <= 90 THEN NoExc ELSE "ValueError"

\* the function called for a trace key, where it can raise
StepFunction(key) ==
    IF key = "CALC_S12_23" THEN "inv_rel_dist_earth_sun"
    ELSE IF key = "CALC_S12_24" THEN "sol_dec"
    ELSE IF key = "CALC_S14_26" THEN "sunset_hour_angle"
    ELSE IF key = "CALC_S15_27" THEN "et_rad"
    ELSE IF key = "CALC_S18_30" THEN "net_out_lw_rad"
    ELSE "step"

\* the entries of self._calc_data the step writing key reads
Reads(key) ==
    CASE key = "CALC_S1_5" -> {CONF_TEMP_MIN, CONF_TEMP_MAX}
      [] key = "CALC_S2_6" -> {CONF_SOLAR_RAD}
      [] key = "CALC_S3_7" -> {CONF_WIND}
      [] key = "CALC_S4_9" -> {"CALC_S1_5"}
      [] key = "CALC_S5_10" -> {CONF_ELEVATION}
      [] key = "CALC_S6_11" -> {"CALC_S5_10"}
      [] key = "CALC_S7_12" -> {"CALC_S4_9", "CALC_S6_11", "CALC_S3_7"}
      [] key = "CALC_S8_13" -> {"CALC_S4_9", "CALC_S6_11", "CALC_S3_7"}
      [] key = "CALC_S9_14" -> {"CALC_S1_5", "CALC_S3_7"}
      [] key = "CALC_S10_16" -> {CONF_TEMP_MAX}
      [] key = "CALC_S10_17" -> {CONF_TEMP_MIN}
      [] key = "CALC_S10_18" -> {"CALC_S10_16", "CALC_S10_17"}
      [] key = "CALC_S11_19" -> {"CALC_S10_16", CONF_HUMIDITY_MIN,
                                 "CALC_S10_17", CONF_HUMIDITY_MAX}
      [] key = "CALC_S12_23" -> {CONF_DOY}
      [] key = "CALC_S12_24" -> {CONF_DOY}
      [] key = "CALC_S13_25" -> {CONF_LATITUDE}
      [] key = "CALC_S14_26" -> {"CALC_S13_25", "CALC_S12_24"}
      [] key = "CALC_S15_27" -> {"CALC_S13_25", "CALC_S12_24", "CALC_S14_26",
                                 "CALC_S12_23"}
      [] key = "CALC_S16_28" -> {CONF_ELEVATION, "CALC_S15_27"}
      [] key = "CALC_S17_29" -> {"CALC_S2_6", CONF_ALBEDO}
      [] key = "CALC_S18_30" -> {CONF_TEMP_MIN, CONF_TEMP_MAX, "CALC_S2_6",
                                 "CALC_S16_28", "CALC_S11_19"}
      [] key = "CALC_S19_31" -> {"CALC_S17_29", "CALC_S18_30"}
      [] key = "CALC_S19_32" -> {"CALC_S19_31"}
      [] key = "CALC_FS_33" -> {"CALC_S7_12", "CALC_S19_32"}
      [] key = "CALC_FS_34" -> {"CALC_S8_13", "CALC_S9_14", "CALC_S11_19",
                                "CALC_S10_18"}
      [] key = "CALC_FSETO_35" -> {"CALC_FS_34", "CALC_FS_33"}

InputSet == {InputKeys[i] : i \in 1..Len(InputKeys)}
TraceSet == {TraceKeys[i] : i \in 1..Len(TraceKeys)}

\* what the entry k of the mapping was computed from: an input is itself, a
\* trace entry holds the pairs <<input key, input value>> that went into it
Prov(cd, k) == IF k \in InputSet THEN {<<k, cd[k]>>} ELSE cd[k]

\* a step that folds the entry it overwrites into the new value
StepValueAccumulating(key, cd) ==
    UNION ({Prov(cd, r) : r \in Reads(key)}
             \cup {IF key \in DOMAIN cd THEN cd[key] ELSE {}})

\* the value a step stores: the inputs that went into the entries it reads
StepValue(key, cd) == UNION {Prov(cd, r) : r \in Reads(key)}

\* the latitude a trace value was computed from
LatitudeOf(v) == (CHOOSE p \in v : p[1] = CONF_LATITUDE)[2]

\* the day of the year a trace value was computed from
DoyOf(v) == (CHOOSE p \in v : p[1] = CONF_DOY)[2]

\* sol_dec > 0: 0.409 * sin(2 pi / 365 * doy - 1.39) is positive on the days
\* 81..263 of 1..366 and negative on the others
sol_dec_positive(doy) == 81 <= doy /\ doy <= 263

\* sunset_hour_angle returns acos(1) = 0 when -tan(lat) * tan(sol_dec) >= 1.
\* tan of the float nearest pi/2 is 1.6e16, so at a pole this is the half of
\* the year in which the declination has the other sign; up to 66 degrees
\* |tan(lat) * tan(sol_dec)| < 2.25 * 0.44 < 1.  Latitudes in between, where
\* the answer depends on the day, are outside the latitudes drawn here.
sunset_hour_angle_zero(lat, doy) ==
    CASE lat = 90 -> ~sol_dec_positive(doy)
      [] lat = -90 -> sol_dec_positive(doy)
      [] OTHER -> FALSE

\* net_out_lw_rad divides sol_rad by cs_rad; cs_rad is a positive factor
\* times et_rad, and et_rad is 0.0 when the sunset hour angle is 0
net_out_lw_rad_exc(lat, doy) ==
    IF sunset_hour_angle_zero(lat, doy) THEN "ZeroDivisionError" ELSE NoExc

\* the exception the step writing key raises on the mapping cd: a read of a
\* missing entry, the domain check of the function called, or its division
StepExc(key, cd) ==
    IF ~(Reads(key) \subseteq DOMAIN cd) THEN "KeyError"
    ELSE IF key \in {"CALC_S12_23", "CALC_S12_24"} THEN check_doy(cd[CONF_DOY])
    ELSE IF key \in {"CALC_S14_26", "CALC_S15_27"}
    THEN check_latitude_rad(LatitudeOf(cd["CALC_S13_25"]))
    ELSE IF key = "CALC_S18_30"
    THEN net_out_lw_rad_exc(LatitudeOf(cd["CALC_S16_28"]),
                            DoyOf(cd["CALC_S16_28"]))
    ELSE NoExc

\* calc_eto from step i on: the mapping after the call, what was raised and
\* the keys written, in the order of the writes
RECURSIVE calc_eto_from(_, _)
calc_eto_from(cd, i) ==
    IF i > Len(TraceKeys)
    THEN [data |-> cd, exc |-> NoExc, origin |-> NoExc, written |-> <<>>]
    ELSE IF StepExc(TraceKeys[i], cd) # NoExc
    THEN [data |-> cd, exc |-> StepExc(TraceKeys[i], cd),
          origin |-> StepFunction(TraceKeys[i]), written |-> <<>>]
    ELSE LET r == calc_eto_from(
                      Put(cd, TraceKeys[i], StepValue(TraceKeys[i], cd)), i + 1)
         IN  [r EXCEPT !.written = <<TraceKeys[i]>> \o @]

\* calc_eto keeping the step 1 entry of an earlier invocation
calc_eto_keeping_step1(cd) ==
    IF "CALC_S1_5" \in DOMAIN cd THEN calc_eto_from(cd, 2)
                                 ELSE calc_eto_from(cd, 1)

\* calc_eto returning before the final ETo entry is written
calc_eto_without_final(cd) ==
    LET r == calc_eto_from(cd, 1)
    IN  IF r.exc # NoExc THEN r
        ELSE [r EXCEPT !.data = [k \in DOMAIN cd \cup
                                     (DOMAIN r.data \ {"CALC_FSETO_35"}) |->
                                         r.data[k]],
                       !.written = SubSeq(@, 1, Len(@) - 1)]

calc_eto(cd) == calc_eto_from(cd, 1)

\* the reads of collect_calculation_data from entity i on; st[i] is the
\* state of the entity behind ReadingKeys[i]
RECURSIVE collect_readings(_, _, _)
collect_readings(cd, st, i) ==
    IF i > Len(ReadingKeys) THEN [data |-> cd, exc |-> NoExc, written |-> <<>>]
    ELSE LET g == EtoGet(st[i])
         IN  IF g.exc # NoExc
             THEN [data |-> cd, exc |-> g.exc, written |-> <<>>]
             ELSE LET r == collect_readings(
                               Put(cd, ReadingKeys[i],
                                   Normalise(ReadingKeys[i], g.val)),
                               st, i + 1)
                  IN  [r EXCEPT !.written = <<ReadingKeys[i]>> \o @]

\* ETOApiClient.collect_calculation_data on entity states st and on day doy
eto_collect_calculation_data(cd, st, doy) ==
    LET r == collect_readings(cd, st, 1)
        c == calc_eto(Put(r.data, CONF_DOY, doy))
        w == r.written \o <<CONF_DOY>> \o c.written
    IN  IF r.exc # NoExc
        THEN [data |-> r.data, exc |-> Raised(EtoWrap(r.exc), r.exc, "_get"),
              written |-> r.written]
        ELSE IF c.exc # NoExc
        THEN [data |-> c.data, exc |-> Raised(EtoWrap(c.exc), c.exc, c.origin),
              written |-> w]
        ELSE [data |-> c.data, exc |-> NotRaised, written |-> w]

-----------------------------------------------------------------------------
(* Inputs *)

\* configurations offered by the options form (samples of the slider ranges)
Throughputs == {MIN_THROUGHPUT, 7, 10, MAX_THROUGHPUT}
Scales == {MIN_SCALE, 50, 99, MAX_SCALE}
MaxMins == {MIN_MAX_MINS, 30, MAX_MAX_MINS}
CalcConfigs == Throughputs \X Scales \X MaxMins
ZoneConfigs == {<<10, MAX_SCALE, 30>>, <<10, 50, 30>>, <<7, 99, MIN_MAX_MINS>>}

\* float values an entity state can parse to
SpecialFloats == {NaN, PosInf, NegInf}
SampleFloats == {Num(0), Num(MaxTenths), NaN, PosInf}
AllFloats == {Num(n) : n \in 0..MaxTenths} \cup SpecialFloats

\* states of an entity in the state machine
NoState == [t |-> "none", v |-> 0]
UnknownState == [t |-> "unknown", v |-> 0]
TextState == [t |-> "text", v |-> 0]
EntityStates == {NoState, UnknownState, TextState} \cup SampleFloats

-----------------------------------------------------------------------------
(* Smart-zone client: coordinator refreshes and sensor state writes *)

\* a client constructed with configuration cfg, before its first tick
Constructed(cfg) ==
    /\ throughput = cfg[1]
    /\ scale = cfg[2]
    /\ max_mins = cfg[3]
    /\ calc_data = InitCalcData(throughput, scale, max_mins)
    /\ tick_exc = NoExc
    /\ calc_called = FALSE
    /\ coord_exc = NoExc
    /\ last_update_success = TRUE
    /\ has_data = FALSE
    /\ attributes = [exc |-> NoExc, attrs |-> NoAttrs]
    /\ states = [eto |-> NoState, rain |-> NoState]

\* one refresh of the coordinator: _async_update_data -> async_get_data ->
\* collect_calculation_data, run when the state machine holds es for the eto
\* entity and rs for the rain entity; after a
\* successful refresh the coordinator's listener makes the sensor write its
\* state, which reads extra_state_attributes from the returned mapping
Tick(es, rs) ==
    LET r == collect_calculation_data(calc_data, es, rs,
                                      throughput, scale, max_mins)
    IN  /\ calc_data' = r.data
        /\ tick_exc' = r.exc
        /\ calc_called' = r.called
        /\ coord_exc' = UpdateExc(r.exc)
        /\ last_update_success' = (r.exc = NoExc)
        /\ has_data' = (has_data \/ r.exc = NoExc)
        /\ attributes' = IF r.exc = NoExc THEN extra_state_attributes(r.data)
                                          ELSE attributes
        /\ states' = [eto |-> es, rain |-> rs]
        /\ UNCHANGED <<throughput, scale, max_mins>>


ZoneInit == \E cfg \in ZoneConfigs : Constructed(cfg)

EtoIdle ==
    /\ eto_calc_data = EtoInitCalcData(0, 0, 0)
    /\ eto_exc = NotRaised
    /\ eto_written = <<>>

CalcIdle ==
    /\ in_eto = NaN
    /\ in_rain = NaN
    /\ out_duration = [val |-> 0, exc |-> NoExc]
    /\ pc = "idle"

\* the refresh tasks of a coordinator: the update interval's timer and a
\* refresh requested through the sensor's async_update
Tasks == {"interval", "request"}

\* no refresh task has been started
LoopIdle ==
    /\ task_pc = [t \in Tasks |-> "idle"]
    /\ running = "none"

\* the config flows that can be in progress at once, and the names typed
Flows == {1, 2}
Names == {"lawn", "beds", "pots"}
NoName == "none"

\* every flow shows the form of its user step and no entry exists
FlowIdle ==
    /\ flow_step = [f \in Flows |-> "user"]
    /\ flow_config = [f \in Flows |-> NoName]
    /\ entries = <<>>

\* what the observer sees of the sensor: nothing, "unavailable", or a number
NotPublished == [t |-> "none", v |-> 0]
Unavailable == [t |-> "unavailable", v |-> 0]

\* async_setup_entry has constructed the client and the coordinator
SetupIdle ==
    /\ setup_pc = "first_refresh"
    /\ published = NotPublished

AuxIdle == LoopIdle /\ FlowIdle /\ SetupIdle

Init ==
    /\ ZoneInit
    /\ CalcIdle
    /\ EtoIdle
    /\ AuxIdle

Next ==
    \E es, rs \in EntityStates :
        Tick(es, rs) /\ UNCHANGED <<calcVars, etoVars, auxVars>>

Spec == Init /\ [][Next]_vars

-----------------------------------------------------------------------------
(* Smart-zone client constructed directly: __init__ takes any integer       *)
(* throughput, the slider range of the options form is not in its way       *)

\* arguments of __init__: a zero, a negative and a positive throughput
AnyConfigs == {<<0, MAX_SCALE, 30>>, <<-10, MAX_SCALE, 30>>,
               <<10, MAX_SCALE, 30>>}

AnyInit ==
    /\ \E cfg \in AnyConfigs : Constructed(cfg)
    /\ CalcIdle
    /\ EtoIdle
    /\ AuxIdle

NextAny ==
    \E es, rs \in EntityStates :
        Tick(es, rs) /\ UNCHANGED <<calcVars, etoVars, auxVars>>

SpecAny == AnyInit /\ [][NextAny]_vars

-----------------------------------------------------------------------------
(* Smart-zone client on the event loop: a tick as the sequence of its awaits. *)
(* The loop executes one task at a time and takes another one only when the  *)
(* running task suspends or ends; entity states change between tasks.        *)

\* _get waiting for its reading, as a network fetch would
SuspendsInGet(step) == step \in {"get_eto", "get_rain"}

\* whether awaiting the coroutine of a step hands control back to the event
\* loop: _get and calc_smart_zone contain no await, so they run through
Suspends(step) == FALSE

LoopStates == {UnknownState, Num(0), Num(MaxTenths)}

LoopInit ==
    /\ Constructed(<<10, MAX_SCALE, 30>>)
    /\ CalcIdle
    /\ EtoIdle
    /\ AuxIdle

\* what a finished tick leaves in the coordinator and the sensor
TickEnds(data, exc, called) ==
    /\ calc_data' = data
    /\ tick_exc' = exc
    /\ calc_called' = called
    /\ coord_exc' = UpdateExc(exc)
    /\ last_update_success' = (exc = NoExc)
    /\ has_data' = (has_data \/ exc = NoExc)
    /\ attributes' = IF exc = NoExc THEN extra_state_attributes(data)
                                    ELSE attributes

\* a tick still on its way writes data and nothing else
TickGoesOn(data) ==
    /\ calc_data' = data
    /\ UNCHANGED <<tick_exc, calc_called, coord_exc, last_update_success,
                   has_data, attributes>>

\* the position after step, and the task the loop executes next
Proceeds(t, step, next) ==
    /\ task_pc' = [task_pc EXCEPT ![t] = next]
    /\ running' = IF next = "idle" \/ Suspends(step) THEN "none" ELSE t

\* the event loop executes the next step of task t: the first read of
\* collect_calculation_data when the task is started, else the step it is at
RunTask(t) ==
    /\ running \in {"none", t}
    /\ LET step == IF task_pc[t] = "idle" THEN "get_eto" ELSE task_pc[t]
           g == Get(IF step = "get_eto" THEN states.eto ELSE states.rain)
           key == IF step = "get_eto" THEN ATTR_ETO ELSE ATTR_RAIN
           c == calc_smart_zone(calc_data, throughput, scale, max_mins)
       IN  IF step = "calc"
           THEN TickEnds(c.data, Wrap(c.exc), TRUE) /\ Proceeds(t, step, "idle")
           ELSE IF g.exc # NoExc
           THEN TickEnds(calc_data, Wrap(g.exc), FALSE)
                    /\ Proceeds(t, step, "idle")
           ELSE TickGoesOn(Put(calc_data, key, g.val))
                    /\ Proceeds(t, step,
                                IF step = "get_eto" THEN "get_rain" ELSE "calc")
    /\ UNCHANGED <<throughput, scale, max_mins, states, calcVars, etoVars,
                   flowVars, setupVars>>

\* the state machine takes new states of the two entities; this runs on the
\* event loop, so between tasks
StateChanged(es, rs) ==
    /\ running = "none"
    /\ states' = [eto |-> es, rain |-> rs]
    /\ UNCHANGED <<throughput, scale, max_mins, calc_data, tick_exc,
                   calc_called, coord_exc, last_update_success, has_data,
                   attributes, calcVars, etoVars, loopVars, flowVars,
                   setupVars>>

NextLoop ==
    \/ \E t \in Tasks : RunTask(t)
    \/ \E es, rs \in LoopStates : StateChanged(es, rs)

SpecLoop == LoopInit /\ [][NextLoop]_vars

-----------------------------------------------------------------------------
(* Config flow of eto_smart_zone: the user step, the init step and the      *)
(* creation of the entry, for flows that are in progress at the same time   *)

\* configured_instances: the names of the entries that exist
configured_instances == {entries[i] : i \in 1..Len(entries)}

\* async_step_user with user_input: a name that is configured shows the form
\* again with the error already_configured, any other name is kept in
\* self.config and async_step_init shows the options form
async_step_user(f, name) ==
    /\ flow_step[f] = "user"
    /\ IF name \in configured_instances
       THEN UNCHANGED <<flow_step, flow_config>>
       ELSE /\ flow_config' = [flow_config EXCEPT ![f] = name]
            /\ flow_step' = [flow_step EXCEPT ![f] = "init"]
    /\ UNCHANGED entries

\* async_step_init with user_input: the options are added to self.config and
\* async_step_update creates the entry titled self.config[CONF_NAME]; the
\* flow sets no unique id, so the entry is added whatever entries exist
async_step_init(f) ==
    /\ flow_step[f] = "init"
    /\ Len(entries) < MaxEntries
    /\ entries' = Append(entries, flow_config[f])
    /\ flow_step' = [flow_step EXCEPT ![f] = "created"]
    /\ UNCHANGED flow_config

\* the user starts another flow
FlowStarted(f) ==
    /\ flow_step[f] = "created"
    /\ flow_step' = [flow_step EXCEPT ![f] = "user"]
    /\ flow_config' = [flow_config EXCEPT ![f] = NoName]
    /\ UNCHANGED entries

FlowInit ==
    /\ Constructed(<<10, MAX_SCALE, 30>>)
    /\ CalcIdle
    /\ EtoIdle
    /\ AuxIdle

\* a step of a config flow touches no client
FlowOnly == UNCHANGED <<zoneVars, calcVars, etoVars, loopVars, setupVars>>

NextFlow ==
    \/ \E f \in Flows, name \in Names : async_step_user(f, name) /\ FlowOnly
    \/ \E f \in Flows : async_step_init(f) /\ FlowOnly
    \/ \E f \in Flows : FlowStarted(f) /\ FlowOnly

SpecFlow == FlowInit /\ [][NextFlow]_vars

-----------------------------------------------------------------------------
(* async_setup_entry of eto_smart_zone, step by step, and the sensor state   *)
(* the observer sees                                                         *)

\* the first refresh treated like any later one: a failure is only recorded
FirstRefreshIgnoringFailure(exc) == "store_runtime_data"

\* async_config_entry_first_refresh: a failed refresh raises
\* ConfigEntryNotReady out of async_setup_entry
FirstRefresh(exc) ==
    IF exc = NoExc THEN "store_runtime_data" ELSE "not_ready"

\* the state the sensor writes: its native_value when it is available
SensorState(data, success) ==
    IF success THEN [t |-> "num", v |-> data[CALC_RUNTIME]] ELSE Unavailable

SetupOnly == UNCHANGED <<calcVars, etoVars, loopVars, flowVars>>

\* await coordinator.async_config_entry_first_refresh()
SetupFirstRefresh(es, rs) ==
    /\ setup_pc = "first_refresh"
    /\ Tick(es, rs)
    /\ setup_pc' = FirstRefresh(tick_exc')
    /\ UNCHANGED published

\* entry.runtime_data = ETOSmartZoneData(...)
SetupStoreRuntimeData ==
    /\ setup_pc = "store_runtime_data"
    /\ setup_pc' = "forward_setups"
    /\ UNCHANGED <<zoneVars, published>>

\* async_forward_entry_setups: the sensor is created and added, and writes
\* its first state
SetupForward ==
    /\ setup_pc = "forward_setups"
    /\ setup_pc' = "done"
    /\ published' = SensorState(calc_data, last_update_success)
    /\ UNCHANGED zoneVars

\* a refresh after setup; the coordinator calls its listeners after a
\* successful and after a failed refresh, and the sensor writes its state
SetupRefresh(es, rs) ==
    /\ setup_pc = "done"
    /\ Tick(es, rs)
    /\ published' = SensorState(calc_data', last_update_success')
    /\ UNCHANGED setup_pc

SetupInit ==
    /\ Constructed(<<10, MAX_SCALE, 30>>)
    /\ CalcIdle
    /\ EtoIdle
    /\ AuxIdle

NextSetup ==
    \/ \E es, rs \in EntityStates : SetupFirstRefresh(es, rs) /\ SetupOnly
    \/ SetupStoreRuntimeData /\ SetupOnly
    \/ SetupForward /\ SetupOnly
    \/ \E es, rs \in EntityStates : SetupRefresh(es, rs) /\ SetupOnly

SpecSetup == SetupInit /\ [][NextSetup]_vars

-----------------------------------------------------------------------------
(* ETo client: ticks of one ETOApiClient *)

Latitudes == {-91, -90, 52, 90, 91}
Elevations == {50}
Doys == {1, 180, 366}       \* tm_yday of the clock

\* numeric readings of the seven entities, in the entities' own units
\* (degC, percent, km/h, W/m2, albedo in hundredths)
Weathers == {<<15, 25, 40, 80, 7, 208, 23>>, <<-2, 6, 55, 95, 20, 40, 23>>}

FailStates == {NoState, UnknownState, TextState}

\* the entity states of a tick: numeric from w, except entity bad (if any)
EntityVector(w, bad, k) ==
    [i \in 1..Len(ReadingKeys) |-> IF i = bad THEN k ELSE Num(w[i])]

EtoInit ==
    /\ \E lat \in Latitudes, elev \in Elevations :
           eto_calc_data = EtoInitCalcData(lat, 0, elev)
    /\ eto_exc = NotRaised
    /\ eto_written = <<>>
    /\ Constructed(<<10, MAX_SCALE, 30>>)
    /\ CalcIdle
    /\ AuxIdle

EtoTick(st, doy) ==
    LET r == eto_collect_calculation_data(eto_calc_data, st, doy)
    IN  /\ eto_calc_data' = r.data
        /\ eto_exc' = r.exc
        /\ eto_written' = r.written
        /\ UNCHANGED zoneVars

\* the entity that fails, if any: none, the first, a middle one, the last
BadEntities == {0, 1, 4, Len(ReadingKeys)}

NextEto ==
    \E w \in Weathers, doy \in Doys, k \in FailStates, bad \in BadEntities :
        EtoTick(EntityVector(w, bad, k), doy) /\ UNCHANGED <<calcVars, auxVars>>

SpecEto == EtoInit /\ [][NextEto]_vars

-----------------------------------------------------------------------------
(* calc_eto applied once to a mapping whose day_of_year is any integer: the  *)
(* tick of an ETOApiClient with the clock's tm_yday replaced by an input     *)

ValidLatitudes == {-90, 52, 90}

DoyInit ==
    /\ \E lat \in ValidLatitudes, elev \in Elevations,
          doy \in (1 - DoyMargin)..(366 + DoyMargin) :
           eto_calc_data = Put(EtoInitCalcData(lat, 0, elev), CONF_DOY, doy)
    /\ eto_exc = NotRaised
    /\ eto_written = <<>>
    /\ Constructed(<<10, MAX_SCALE, 30>>)
    /\ in_eto = NaN
    /\ in_rain = NaN
    /\ out_duration = [val |-> 0, exc |-> NoExc]
    /\ pc = "start"
    /\ AuxIdle

\* the readings w are stored and calc_eto runs on the given day_of_year
CalcEto(w) ==
    /\ pc = "start"
    /\ EtoTick(EntityVector(w, 0, NoState), eto_calc_data[CONF_DOY])
    /\ pc' = "done"
    /\ UNCHANGED <<in_eto, in_rain, out_duration, auxVars>>

NextDoy == \E w \in Weathers : CalcEto(w)

SpecDoy == DoyInit /\ [][NextDoy]_vars

-----------------------------------------------------------------------------
(* The two duration calculators applied once to the same inputs *)

CalcInit ==
    /\ \E cfg \in CalcConfigs : Constructed(cfg)
    /\ in_eto \in AllFloats
    /\ in_rain \in AllFloats
    /\ out_duration = [val |-> 0, exc |-> NoExc]
    /\ pc = "start"
    /\ AuxIdle
    /\ EtoIdle

\* first tick of a fresh client on (in_eto, in_rain), and calc_duration on them
Calculate ==
    /\ pc = "start"
    /\ Tick(in_eto, in_rain)
    /\ out_duration' = calc_duration(in_eto, in_rain, throughput)
    /\ pc' = "done"
    /\ UNCHANGED <<in_eto, in_rain, etoVars, auxVars>>

NextCalc == Calculate

SpecCalc == CalcInit /\ [][NextCalc]_vars

-----------------------------------------------------------------------------
(* Properties *)

HasRaw == ATTR_RAW_RUNTIME \in DOMAIN calc_data
Runtime == calc_data[CALC_RUNTIME]
TickSucceeded == has_data /\ tick_exc = NoExc
Unusable(st) == st.t \in {"none", "unknown", "text"}

\* the calculators have been applied to (in_eto, in_rain) without an error
Calculated == pc = "done" /\ tick_exc = NoExc
\* rainfall < eto for numeric readings, and the deficit in tenths
Deficit == in_eto.v - in_rain.v
Dry == IsNum(in_eto) /\ IsNum(in_rain) /\ in_rain.v < in_eto.v
Min(a, b) == IF a < b THEN a ELSE b

\* C1: in every reachable state of a client the runtime entry is an integer
\* with 0 <= runtime <= max_mins * 60.
C1_RuntimeWithinCap ==
    /\ Runtime \in Int
    /\ 0 <= Runtime
    /\ Runtime <= max_mins * 60

\* C1 witness: a tick failed after a tick whose runtime was cut to the cap.
C1_Witness ==
    /\ tick_exc # NoExc
    /\ HasRaw
    /\ calc_data[ATTR_RAW_RUNTIME] > max_mins * 60
    /\ Runtime = max_mins * 60

\* C2 (as claimed): whenever the eto and rain entries are both numbers and
\* rain >= eto, runtime is 0.
C2_CoveredImpliesZero ==
    (IsNum(calc_data[ATTR_ETO]) /\ IsNum(calc_data[ATTR_RAIN])
        /\ calc_data[ATTR_RAIN].v >= calc_data[ATTR_ETO].v)
    => Runtime = 0

\* C3: a successful calculation with rainfall >= eto gives runtime 0 in
\* calc_smart_zone and in calc_duration, rainfall = eto included.
C3_CoveredGivesZero ==
    (pc = "done" /\ FGeq(in_rain, in_eto))
    => /\ tick_exc = NoExc => Runtime = 0
       /\ out_duration.exc = NoExc => out_duration.val = 0

\* C3 witness: both calculators ran on rainfall = eto > 0.
C3_Witness ==
    /\ Calculated
    /\ out_duration.exc = NoExc
    /\ IsNum(in_eto) /\ in_eto.v > 0
    /\ in_rain = in_eto
    /\ Runtime = 0
    /\ out_duration.val = 0

\* C4: with rainfall < eto the runtime of a successful tick is
\* min(scaled, max_mins * 60); throughput 10, scale 100, max_mins 30, eto 8,
\* rainfall 0 gives scaled 2880 and runtime 1800.
C4_RuntimeIsMinOfScaledAndCap ==
    (Calculated /\ Dry)
    => LET scaled == Round(Deficit * 36 * scale, throughput * 10)
       IN  /\ Runtime = Min(scaled, max_mins * 60)
           /\ (throughput = 10 /\ scale = 100 /\ max_mins = 30
                 /\ in_eto = Num(80) /\ in_rain = Num(0))
              => (scaled = 2880 /\ Runtime = 1800)

\* C4 witness: the example of the clamp has been calculated.
C4_Witness ==
    /\ Calculated
    /\ throughput = 10 /\ scale = 100 /\ max_mins = 30
    /\ in_eto = Num(80) /\ in_rain = Num(0)
    /\ Runtime = 1800

\* C5 (as claimed): with rainfall < eto the raw_runtime entry is
\* round(|rainfall - eto| / throughput * 3600), whatever the scale.
C5_RawIsUnscaled ==
    (Calculated /\ Dry)
    => /\ HasRaw
       /\ calc_data[ATTR_RAW_RUNTIME] = Round(Deficit * 360, throughput)

\* C5 (amended): with rainfall < eto the raw_runtime entry is the scaled
\* runtime before the cap, round(|rainfall - eto| / throughput * 3600 *
\* scale / 100); it is the unscaled requirement when scale = 100.
C5_RawIsScaledUncapped ==
    (Calculated /\ Dry)
    => /\ HasRaw
       /\ calc_data[ATTR_RAW_RUNTIME] = Round(Deficit * 36 * scale, throughput * 10)
       /\ scale = 100
          => calc_data[ATTR_RAW_RUNTIME] = Round(Deficit * 360, throughput)

\* C5 witness: at scale 50 the raw_runtime entry is half the requirement.
C5_Witness ==
    /\ Calculated
    /\ throughput = 10 /\ scale = 50
    /\ in_eto = Num(80) /\ in_rain = Num(0)
    /\ HasRaw
    /\ calc_data[ATTR_RAW_RUNTIME] = 1440
    /\ out_duration.val = 2880

\* the scaled runtime before the cap, as round(raw * scale / 100) of the
\* rounded raw runtime
DoubleRounded == Round(Round(Deficit * 360, throughput) * scale, 100)

\* C6 (as claimed): with rainfall < eto the scaled runtime before the cap is
\* round(raw * scale / 100), raw the already rounded raw runtime.
C6_ScaledFromRoundedRaw ==
    (Calculated /\ Dry)
    => /\ HasRaw
       /\ calc_data[ATTR_RAW_RUNTIME] = DoubleRounded

\* C6 (amended): with rainfall < eto the scaled runtime before the cap is
\* round(reqd * scale / 100) of the unrounded requirement reqd =
\* |rainfall - eto| / throughput * 3600; it is within one second of
\* round(raw * scale / 100), and halving the scale on the 2880 s example
\* gives 1440 s.
C6_ScaledFromUnroundedRequirement ==
    (Calculated /\ Dry)
    => LET scaled == calc_data[ATTR_RAW_RUNTIME]
       IN  /\ HasRaw
           /\ 2 * (scaled * throughput * 1000 - Deficit * 3600 * scale)
                 \in (-(throughput * 1000))..(throughput * 1000)
           /\ scaled - DoubleRounded \in {-1, 0, 1}
           /\ (throughput = 10 /\ scale = 50
                 /\ in_eto = Num(80) /\ in_rain = Num(0)) => scaled = 1440

\* C6 witness: a calculation in which the two roundings disagree.
C6_Witness ==
    /\ Calculated /\ Dry
    /\ HasRaw
    /\ calc_data[ATTR_RAW_RUNTIME] # DoubleRounded
    /\ Runtime = calc_data[ATTR_RAW_RUNTIME]

\* C7 (as claimed): after a successful tick with rainfall >= eto the
\* raw_runtime entry of the mapping (where the mapping has one) is 0.
C7_CoveredTickRawZero ==
    (TickSucceeded /\ HasRaw /\ FGeq(calc_data[ATTR_RAIN], calc_data[ATTR_ETO]))
    => calc_data[ATTR_RAW_RUNTIME] = 0

\* C8 (as claimed): after every successful tick the mapping has the entries
\* raw_runtime, runtime, throughput, scale and max_mins, and the sensor's
\* attribute read finds every key.
C8_ResultHasEveryKey ==
    TickSucceeded
    => /\ {CALC_RAW_RUNTIME, CALC_RUNTIME, CONF_THROUGHPUT_MM_H, CONF_SCALE,
           CONF_MAX_MINS} \subseteq DOMAIN calc_data
       /\ attributes.exc = NoExc

\* C9: a tick that finds the eto or the rain entity without a state, in state
\* "unknown" or in a non-numeric state fails, does not execute
\* calc_smart_zone, and leaves the runtime and raw_runtime entries as they were.
C9_UnusableReadingFailsTick ==
    [][ (Unusable(states'.eto) \/ Unusable(states'.rain))
        => /\ tick_exc' # NoExc
           /\ coord_exc' # NoExc
           /\ ~calc_called'
           /\ calc_data'[CALC_RUNTIME] = calc_data[CALC_RUNTIME]
           /\ (ATTR_RAW_RUNTIME \in DOMAIN calc_data')
                = (ATTR_RAW_RUNTIME \in DOMAIN calc_data)
           /\ HasRaw => calc_data'[ATTR_RAW_RUNTIME] = calc_data[ATTR_RAW_RUNTIME]
      ]_vars

\* C9 witness: after a tick that computed a runtime, a tick stored a new eto
\* reading and then found the rain entity unusable.
C9_Witness ==
    /\ IsNum(states.eto)
    /\ Unusable(states.rain)
    /\ tick_exc # NoExc
    /\ calc_data[ATTR_ETO] = states.eto
    /\ HasRaw
    /\ Runtime > 0

\* C10 (as claimed): the kind raised for an unavailable reading differs from
\* the kind raised for a domain violation: when a tick that failed in _get is
\* followed by a tick that failed a domain check, the two kinds differ.
C10_UnavailableAndDomainKindsDiffer ==
    [][ (eto_exc.origin = "_get"
           /\ eto_exc'.origin \in {"inv_rel_dist_earth_sun", "sol_dec",
                                   "sunset_hour_angle", "et_rad"})
        => eto_exc'.kind # eto_exc.kind
      ]_vars

\* the last tick read the state "unknown" from the eto entity, or from the
\* rain entity after a numeric eto reading
StartupFailure(st) ==
    \/ st.eto.t = "unknown"
    \/ st.eto.t \in {"num", "nan", "inf", "ninf"} /\ st.rain.t = "unknown"

\* the readings are numbers with rainfall < eto
DryStates(st) == IsNum(st.eto) /\ IsNum(st.rain) /\ st.rain.v < st.eto.v

\* C11 (as claimed): a tick of a client with throughput 0 on rainfall < eto
\* fails with the calculation-error kind, and when it follows a tick that
\* failed on a reading in the state "unknown" the two ticks raise different
\* kinds, in collect_calculation_data and in the coordinator.
C11_ZeroDivisionKindDiffersFromStartup ==
    [][ (throughput = 0 /\ DryStates(states'))
        => /\ tick_exc' = "ETOApiSmartZoneCalculationError"
           /\ (tick_exc # NoExc /\ StartupFailure(states))
              => (tick_exc' # tick_exc /\ coord_exc' # coord_exc)
      ]_vars

\* calc_eto has been applied to the drawn day_of_year
DoyDone == pc = "done"
DoyCheckFailed ==
    /\ eto_exc.cause = "ValueError"
    /\ eto_exc.origin \in {"inv_rel_dist_earth_sun", "sol_dec"}

\* C12: with the other inputs valid, calc_eto fails with the domain error of
\* the day-of-year check for every day_of_year < 1 or > 366 (0 and 367 among
\* them), and for every day_of_year in 1..366 (1 and 366 among them) it
\* does not fail the day-of-year check.
C12_DoyDomain ==
    DoyDone
    => LET doy == eto_calc_data[CONF_DOY]
       IN  /\ (doy < 1 \/ doy > 366)
              => (DoyCheckFailed
                    /\ eto_exc.kind = "ETOApiClientCalculationError")
           /\ (1 <= doy /\ doy <= 366) => ~DoyCheckFailed

\* C12 witness: calc_eto failed the day-of-year check on day 367 after
\* writing the steps before step 12.
C12_Witness ==
    /\ DoyDone
    /\ eto_calc_data[CONF_DOY] = 367
    /\ DoyCheckFailed
    /\ "CALC_S11_19" \in DOMAIN eto_calc_data
    /\ "CALC_S12_23" \notin DOMAIN eto_calc_data

\* an earlier tick of the ETo client succeeded: async_get_data returned the
\* client's mapping itself, and the caller holds that object
EtoHasResult == "CALC_FSETO_35" \in DOMAIN eto_calc_data

\* C13 (as claimed): a failed ETo tick changes no entry of the mapping that
\* an earlier successful tick returned.
C13_FailedTickLeavesResult ==
    [][ (EtoHasResult /\ eto_exc'.kind # NoExc)
        => eto_calc_data' = eto_calc_data
      ]_vars

\* the mapping a second client with the same configuration returns from its
\* first tick on the readings es and rs
FreshResult(es, rs) ==
    collect_calculation_data(InitCalcData(throughput, scale, max_mins),
                             es, rs, throughput, scale, max_mins).data

\* C14 (as claimed): the mapping after a successful tick depends on that
\* tick's readings and the configuration only: it equals the mapping a
\* client with the same configuration and no earlier tick returns for the
\* same readings.
C14_ResultIndependentOfHistory ==
    TickSucceeded => calc_data = FreshResult(states.eto, states.rain)

\* the last ETo tick succeeded
EtoTickSucceeded == eto_written # <<>> /\ eto_exc = NotRaised

\* the readings, site constants and day of year held by the mapping cd
InputsOf(cd) == [k \in InputSet \cup {CONF_LONGITUDE} |-> cd[k]]

\* C15: the mapping after a successful ETo tick is the mapping calc_eto gives
\* on that tick's readings, site constants and day of year alone, so two
\* successful ticks with the same inputs return equal mappings whatever
\* ticks ran in between.
C15_SameInputsSameResult ==
    EtoTickSucceeded
    => eto_calc_data = calc_eto(InputsOf(eto_calc_data)).data

\* C15 witness: a successful tick on the cold day's readings whose ETo entry
\* was computed from those readings.
C15_Witness ==
    /\ EtoTickSucceeded
    /\ eto_calc_data[CONF_TEMP_MIN] = Rat(-2, 1)
    /\ eto_calc_data[CONF_DOY] = 366
    /\ <<CONF_TEMP_MIN, Rat(-2, 1)>> \in eto_calc_data["CALC_FSETO_35"]

\* C16 (as claimed): once async_get_data has returned the mapping to the
\* coordinator, no later tick, successful or failed, changes an entry of it.
C16_ReturnedResultImmutable ==
    [][ has_data => calc_data' = calc_data ]_vars

\* the trace keys the last ETo tick wrote, in the order of the writes
TraceWritten == SelectSeq(eto_written, LAMBDA k : k \in TraceSet)

\* the readings, site constants and day of year now in the mapping
CurrentInputs ==
    {<<k, eto_calc_data[k]>> : k \in InputSet \cap DOMAIN eto_calc_data}

\* C17: every step of calc_eto reads only inputs and trace entries written
\* by earlier steps of the same invocation: no read finds an entry missing,
\* the steps are written in the order 1..19, radiation term, wind term, ETo,
\* and every entry written by the last tick was computed from the inputs of
\* that tick alone, never from an entry of a previous invocation.
C17_StepsReadOnlyEarlierEntries ==
    /\ eto_exc.cause # "KeyError"
    /\ \A i \in 1..Len(TraceKeys) :
           Reads(TraceKeys[i])
               \subseteq InputSet \cup {TraceKeys[j] : j \in 1..(i - 1)}
    /\ TraceWritten = SubSeq(TraceKeys, 1, Len(TraceWritten))
    /\ EtoTickSucceeded => TraceWritten = TraceKeys
    /\ \A i \in 1..Len(TraceWritten) :
           eto_calc_data[TraceWritten[i]] \subseteq CurrentInputs

\* C17 witness: a tick on the warm day's readings wrote the eight inputs and
\* the 26 trace entries, the ETo entry last.
C17_Witness ==
    /\ EtoTickSucceeded
    /\ Len(eto_written) = Len(ReadingKeys) + 1 + Len(TraceKeys)
    /\ eto_written[Len(eto_written)] = "CALC_FSETO_35"
    /\ eto_calc_data[CONF_TEMP_MIN] = Rat(15, 1)
    /\ eto_calc_data[CONF_DOY] = 1

\* the 25 step keys of const.py, from the mean temperature to the wind term
StepKeys ==
    {"CALC_S1_5", "CALC_S2_6", "CALC_S3_7", "CALC_S4_9", "CALC_S5_10",
     "CALC_S6_11", "CALC_S7_12", "CALC_S8_13", "CALC_S9_14", "CALC_S10_16",
     "CALC_S10_17", "CALC_S10_18", "CALC_S11_19", "CALC_S12_23",
     "CALC_S12_24", "CALC_S13_25", "CALC_S14_26", "CALC_S15_27",
     "CALC_S16_28", "CALC_S17_29", "CALC_S18_30", "CALC_S19_31",
     "CALC_S19_32", "CALC_FS_33", "CALC_FS_34"}

\* C18: after a successful ETo tick the mapping has an entry for each of the
\* 25 step keys and for the final ETo key, and the tick wrote every one of
\* them.
C18_ResultHasEveryTraceKey ==
    EtoTickSucceeded
    => /\ Cardinality(StepKeys) = 25
       /\ \A k \in StepKeys \cup {"CALC_FSETO_35"} :
              /\ k \in DOMAIN eto_calc_data
              /\ \E i \in 1..Len(eto_written) : eto_written[i] = k

\* C18 witness: a successful tick at latitude 90 left a mapping of the three
\* site constants, the eight inputs of the tick and the 26 trace entries.
C18_Witness ==
    /\ EtoTickSucceeded
    /\ eto_calc_data[CONF_LATITUDE] = 90
    /\ Cardinality(DOMAIN eto_calc_data) = 3 + 8 + 26

\* C19: for every eto, rain and throughput > 0, calc_duration returns
\* round(|rain - eto| / throughput * 3600) when rain < eto and 0 when rain < eto
\* is false (NaN included), whatever the scale and cap of the configuration;
\* for an infinite deficit round() itself raises OverflowError.
C19_SimpleModeDuration ==
    (pc = "done" /\ throughput > 0)
    => /\ Dry => out_duration =
                     [val |-> Round(Deficit * 3600, 10 * throughput),
                      exc |-> NoExc]
       /\ ~FNeg(FSub(in_rain, in_eto))
              => out_duration = [val |-> 0, exc |-> NoExc]
       /\ FSub(in_rain, in_eto) = NegInf => out_duration.exc = "OverflowError"

\* C19 witness: calc_duration returned 2880 s for eto 8.0 and rain 0.0 at
\* throughput 10 where the smart-zone runtime at scale 1 and cap 1 min is 29 s.
C19_Witness ==
    /\ Calculated
    /\ throughput = 10 /\ scale = MIN_SCALE /\ max_mins = MIN_MAX_MINS
    /\ in_eto = Num(80) /\ in_rain = Num(0)
    /\ out_duration = [val |-> 2880, exc |-> NoExc]
    /\ Runtime = 29

\* C20 (as claimed): construction rejects a throughput <= 0, so a tick that
\* reaches the division of calc_smart_zone (readings with rainfall < eto)
\* divides by a throughput > 0.
C20_DivisorPositive ==
    (calc_called /\ DryStates(states)) => throughput > 0

\* a float that is not a finite number
NonFinite(x) == x.t \in {"nan", "inf", "ninf"}

\* C21 (as claimed): a tick that finds an entity state parsing as NaN or an
\* infinity fails, and no NaN or infinity is ever stored in the eto or rain
\* entry of the mapping.
C21_NonFiniteReadingRejected ==
    /\ (NonFinite(states.eto) \/ NonFinite(states.rain)) => tick_exc # NoExc
    /\ ~NonFinite(calc_data[ATTR_ETO])
    /\ ~NonFinite(calc_data[ATTR_RAIN])

\* task t has written into the mapping and has not finished its tick
MidTick(t) == task_pc[t] \in {"get_rain", "calc"}

\* C22: while a tick is between two of its writes, nothing but that tick
\* executes: no other refresh task starts or moves, and no state change is
\* handled, so the writes of two ticks never interleave.
C22_TickRunsToCompletion ==
    [][ \A t \in Tasks :
            MidTick(t)
            => /\ \A u \in Tasks \ {t} : task_pc'[u] = task_pc[u]
               /\ states' = states
               /\ running = t
      ]_vars

\* C22 witness: the interval's tick has stored eto 8.0 and rain 0.0 over the
\* result of an earlier tick and is about to calculate.
C22_Witness ==
    /\ task_pc["interval"] = "calc"
    /\ task_pc["request"] = "idle"
    /\ has_data
    /\ calc_data[ATTR_ETO] = Num(MaxTenths)
    /\ calc_data[ATTR_RAIN] = Num(0)
    /\ calc_data[CALC_RUNTIME] = 0

\* the cap of the configuration is not below the runtime computed for the
\* drawn readings
CapNotReached ==
    Dry => Round(Deficit * 36 * scale, throughput * 10) <= max_mins * 60

\* C24: with scale = 100 and a cap that is not reached, a successful
\* smart-zone tick gives the runtime calc_duration returns for the same eto,
\* rain and throughput, for all readings, rainfall >= eto and NaN included.
C24_SmartZoneAtFullScaleIsSimple ==
    (Calculated /\ scale = 100 /\ CapNotReached)
    => out_duration = [val |-> Runtime, exc |-> NoExc]

\* C24 witness: eto 3.5, rain 0.0, throughput 20, scale 100 and a cap of 30
\* minutes: both calculators give 630 s.
C24_Witness ==
    /\ Calculated
    /\ throughput = 20 /\ scale = 100 /\ max_mins = 30
    /\ in_eto = Num(35) /\ in_rain = Num(0)
    /\ Runtime = 630
    /\ out_duration.val = 630

\* the last ETo tick read all its entities and entered calc_eto
EtoCalcEntered == \E i \in 1..Len(eto_written) : eto_written[i] = CONF_DOY

\* the trace keys from the sunset hour angle of step 14 on
FromStep14 == {TraceKeys[i] : i \in 17..Len(TraceKeys)}

\* C25: a tick that enters calc_eto with a latitude below -90 or above 90
\* fails with the domain error of sunset_hour_angle (step 14) and writes no
\* sunset hour angle, Ra or later entry; with a latitude in -90..90, both
\* bounds included, the latitude check of steps 14 and 15 passes.
C25_LatitudeDomain ==
    EtoCalcEntered
    => LET lat == eto_calc_data[CONF_LATITUDE]
       IN  /\ (lat < -90 \/ lat > 90)
              => /\ eto_exc = Raised("ETOApiClientCalculationError",
                                     "ValueError", "sunset_hour_angle")
                 /\ \A i \in 1..Len(eto_written) :
                        eto_written[i] \notin FromStep14
                 /\ FromStep14 \cap DOMAIN eto_calc_data = {}
           /\ (-90 <= lat /\ lat <= 90)
              => eto_exc.origin \notin {"sunset_hour_angle", "et_rad"}

\* C25 witness: at latitude 91 a tick stopped at step 14, the latitude in
\* radians being the last entry it wrote.
C25_Witness ==
    /\ eto_calc_data[CONF_LATITUDE] = 91
    /\ eto_exc.origin = "sunset_hour_angle"
    /\ Len(eto_written) > 0
    /\ eto_written[Len(eto_written)] = "CALC_S13_25"
    /\ TraceKeys[17] = "CALC_S14_26"

\* C26: in every reachable state of a client configured through the options
\* form, if the mapping has a raw_runtime entry then
\* raw_runtime >= runtime >= 0, after any successful and failed ticks.
C26_RawAtLeastRuntime ==
    HasRaw
    => /\ calc_data[ATTR_RAW_RUNTIME] >= Runtime
       /\ Runtime >= 0

\* C26 witness: a covered tick set runtime to 0 and left the raw_runtime of an
\* earlier tick in the mapping.
C26_Witness ==
    /\ TickSucceeded
    /\ FGeq(states.rain, states.eto)
    /\ HasRaw
    /\ calc_data[ATTR_RAW_RUNTIME] > 0
    /\ Runtime = 0

\* C27: a failed smart-zone tick leaves collect_calculation_data as
\* ETOApiSmartZoneError or a subclass of it and leaves the coordinator as
\* UpdateFailed, whatever made it fail; a tick that succeeded raised nothing.
C27_EveryFailureIsUpdateFailed ==
    /\ tick_exc # NoExc
       => (IsSmartZoneError(tick_exc) /\ coord_exc = "UpdateFailed")
    /\ tick_exc = NoExc => coord_exc = NoExc
    /\ coord_exc # "ConfigEntryAuthFailed"

\* C27 witness: the division by a zero throughput inside calc_smart_zone
\* reached the coordinator as UpdateFailed.
C27_Witness ==
    /\ throughput = 0
    /\ DryStates(states)
    /\ calc_called
    /\ tick_exc = "ETOApiSmartZoneError"
    /\ coord_exc = "UpdateFailed"
    /\ ~last_update_success

\* C28 (as claimed): no two config entries created by the config flow have
\* the same name, whatever flows are in progress at once.
C28_EntryNamesUnique ==
    \A i, j \in 1..Len(entries) : entries[i] = entries[j] => i = j

\* entry.runtime_data has been stored; the sensor platform has been set up
RuntimeDataStored == setup_pc \in {"forward_setups", "done"}
SensorCreated == setup_pc = "done"

\* C29: runtime_data is stored and the sensor is created only after a tick
\* has succeeded; a failed first refresh ends setup before both, and a number
\* the observer sees was written by calc_smart_zone, never the constructor's
\* runtime 0.
C29_SensorOnlyAfterSuccessfulTick ==
    /\ (RuntimeDataStored \/ SensorCreated) => has_data
    /\ setup_pc = "not_ready"
       => (tick_exc # NoExc /\ ~has_data /\ published = NotPublished)
    /\ published.t = "num"
       => (has_data /\ ATTR_ETO \in DOMAIN calc_data
             /\ calc_data[ATTR_ETO] # STATE_UNKNOWN
             /\ calc_data[ATTR_RAIN] # STATE_UNKNOWN)

\* C29 witness: the first refresh succeeded with a runtime at the cap, the
\* sensor was created and the observer sees 1800.
C29_Witness ==
    /\ SensorCreated
    /\ published = [t |-> "num", v |-> 1800]
    /\ last_update_success



\* the inputs of the last ETo tick that the model varies satisfy the input
\* contract: day_of_year in 1..366 and latitude in -90..90 (the readings of
\* Weathers and the elevation satisfy it always)
EtoContractInputs ==
    /\ EtoCalcEntered
    /\ eto_calc_data[CONF_DOY] \in 1..366
    /\ eto_calc_data[CONF_LATITUDE] \in -90..90

\* C30: an ETo tick whose inputs satisfy the input contract completes
\* successfully: no step of calc_eto raises.
C30_ContractInputsSucceed == EtoContractInputs => eto_exc = NotRaised

====
